---- MODULE Spec2Model ----
(***************************************************************************)
(* A model of rllib/models/list_batch.py (ListBatch) and of                *)
(* rllib/utils/spaces/simplex.py (Repeated, Simplex).                      *)
(*                                                                         *)
(* Python values are modelled as records:                                  *)
(*   a sequence object   [kind |-> "list" | "tuple" | "int", items/dims]   *)
(*   a numpy array       [has_shape, shape, dtype, rows]                   *)
(*   a text              a sequence of one-character strings               *)
(* Floating point numbers are fixed-point integers in units of 1/Scale.    *)
(* An exception is the outcome string of the operation that raised it.     *)
(***************************************************************************)
EXTENDS Integers, Sequences, FiniteSets

VARIABLES
    lb,        \* the ListBatch object: value, lengths, max_len
    lbArgs,    \* the arguments its constructor was called with
    lbOut,     \* the last __repr__/__str__ call and the text it returned
    rep,       \* the Repeated space and its child space
    repOut,    \* the last Repeated call: its argument and what it returned
    repSeen,   \* what sample() returned after each seed(s)
    sx,        \* the Simplex space
    npGlobal,  \* the state of numpy's process-wide generator np.random
    sxOut,     \* the last Simplex call: its arguments and what it returned
    sxSeen     \* what sample() returned after each seed(s)

vars == <<lb, lbArgs, lbOut, rep, repOut, repSeen, sx, npGlobal, sxOut, sxSeen>>

lbVars == <<lb, lbArgs, lbOut>>
repVars == <<rep, repOut, repSeen>>
sxVars == <<sx, npGlobal, sxOut, sxSeen>>

(***************************************************************************)
(* Bounds of the model.                                                    *)
(***************************************************************************)
MaxItems == 2      \* longest value / lengths list handed to ListBatch
MaxElem == 1       \* list elements are 0..MaxElem
MaxLenArg == 2     \* max_len arguments of ListBatch: -1..MaxLenArg, 10+MaxLenArg
MaxMaxLen == 2     \* max_len of a Repeated space: 0..MaxMaxLen
ChildN == 2        \* the child space holds the integers 0..ChildN-1
RngStates == 3     \* states of a pseudo-random generator
MaxSeed == 1       \* seeds are 0..MaxSeed
MaxCalls == 2      \* sample() calls recorded after one seed(s)
MaxLead == 2       \* leading dimension of a Simplex shape: 1..MaxLead
MaxDim == 3        \* last dimension of a Simplex shape: 1..MaxDim

(***************************************************************************)
(* Sequences and texts.                                                    *)
(***************************************************************************)
SeqsUpTo(S, n) == UNION {[1..k -> S] : k \in 0..n}

Front(s) == SubSeq(s, 1, Len(s) - 1)

Min(a, b) == IF a <= b THEN a ELSE b

Abs(a) == IF a < 0 THEN -a ELSE a

IsSubstring(s, t) ==
    \E i \in 1..(Len(t) - Len(s) + 1) : SubSeq(t, i, i + Len(s) - 1) = s

Digit(d) == <<"0", "1", "2", "3", "4", "5", "6", "7", "8", "9">>[d + 1]

RECURSIVE ReprNat(_)
ReprNat(n) ==
    IF n < 10 THEN <<Digit(n)>> ELSE ReprNat(n \div 10) \o <<Digit(n % 10)>>

\* repr() / "{}".format() of a Python int
ReprInt(n) == IF n < 0 THEN <<"-">> \o ReprNat(-n) ELSE ReprNat(n)

RECURSIVE JoinInts(_)
JoinInts(xs) ==
    IF Len(xs) = 0 THEN <<>>
    ELSE IF Len(xs) = 1 THEN ReprInt(xs[1])
    ELSE ReprInt(xs[1]) \o <<",", " ">> \o JoinInts(Tail(xs))

\* repr() of a Python list of ints: "[a, b]"
ReprList(xs) == <<"[">> \o JoinInts(xs) \o <<"]">>

\* repr() of a Python tuple of ints: "()", "(a,)", "(a, b)"
ReprTuple(xs) ==
    <<"(">> \o JoinInts(xs) \o (IF Len(xs) = 1 THEN <<",">> ELSE <<>>) \o <<")">>

(***************************************************************************)
(* ListBatch (rllib/models/list_batch.py).                                 *)
(***************************************************************************)
IntLists == SeqsUpTo(0..MaxElem, MaxItems)

LenArgs == (-1..MaxLenArg) \cup {10 + MaxLenArg}

\* ListBatch.__init__
ListBatchInit(value, lengths, max_len) ==
    [value |-> value, lengths |-> lengths, max_len |-> max_len]

TxtListBatch == <<"L", "i", "s", "t", "B", "a", "t", "c", "h", "(">>
TxtValue == <<"v", "a", "l", "u", "e", "=">>
TxtLengths == <<"l", "e", "n", "g", "t", "h", "s", "=">>
TxtMaxLen == <<"m", "a", "x", "_", "l", "e", "n", "=">>
TxtSep == <<",", " ">>

\* A slip in the format arguments: lengths and max_len swapped.
ListBatchReprSwapped(self) ==
    TxtListBatch \o TxtValue \o ReprList(self.value)
        \o TxtSep \o TxtLengths \o ReprInt(self.max_len)
        \o TxtSep \o TxtMaxLen \o ReprList(self.lengths) \o <<")">>

\* ListBatch.__repr__
ListBatchRepr(self) ==
    TxtListBatch \o TxtValue \o ReprList(self.value)
        \o TxtSep \o TxtLengths \o ReprList(self.lengths)
        \o TxtSep \o TxtMaxLen \o ReprInt(self.max_len) \o <<")">>

\* ListBatch.__str__
ListBatchStr(self) == ListBatchRepr(self)

NoText == [op |-> "none", text |-> <<>>]

(***************************************************************************)
(* Pseudo-random generators (numpy.random.RandomState, np.random).         *)
(* A generator is a state in 0..RngStates-1; every draw steps it.          *)
(***************************************************************************)
Rng == 0..(RngStates - 1)

Seeds == 0..MaxSeed

RngNext(g) == (g + 1) % RngStates

\* RandomState.seed(s): the state is a function of s alone
SeedState(s) == s % RngStates

\* RandomState.randint(low, high) read off the stepped state g: low <= n < high
RandInt(g, low, high) == low + (g % (high - low))

(***************************************************************************)
(* Python values handed to and returned by Repeated.                       *)
(***************************************************************************)
NoVal == [kind |-> "none", items |-> <<>>]

PyList(items) == [kind |-> "list", items |-> items]

\* The child space: child_space.sample() and child_space.contains() of a
\* space of the integers 0..child_n-1 with a generator of its own.
ChildSample(child_n, g) == RngNext(g) % child_n

ChildContains(child_n, c) == c \in 0..(child_n - 1)

\* [child_space.sample() for _ in range(n)]
RECURSIVE ChildDraws(_, _, _)
ChildDraws(child_n, g, n) ==
    IF n = 0 THEN [items |-> <<>>, rng |-> g]
    ELSE LET rest == ChildDraws(child_n, RngNext(g), n - 1)
         IN  [items |-> <<ChildSample(child_n, g)>> \o rest.items,
              rng |-> rest.rng]

(***************************************************************************)
(* Repeated (rllib/utils/spaces/simplex.py).                               *)
(***************************************************************************)
\* Repeated.__init__: the generator starts unseeded, in any state
RepeatedInit(child_n, child_rng, max_len, g) ==
    [alive |-> TRUE, child_n |-> child_n, child_rng |-> child_rng,
     max_len |-> max_len, np_random |-> g]

\* Repeated.seed(seed): a new generator, seeded
RepeatedSeed(self, s) == [self EXCEPT !.np_random = SeedState(s)]

\* An off-by-one in the exclusive upper bound of randint.
RepeatedLenHighOff(self) == self.max_len + 2

\* the exclusive upper bound handed to randint in sample()
RepeatedLenHigh(self) == self.max_len + 1

\* Repeated.sample(): randint raises ValueError when low >= high
RepeatedSample(self) ==
    IF RepeatedLenHigh(self) <= 1
    THEN [ret |-> "ValueError", x |-> NoVal, self |-> self]
    ELSE LET g == RngNext(self.np_random)
             n == RandInt(g, 1, RepeatedLenHigh(self))
             d == ChildDraws(self.child_n, self.child_rng, n)
         IN  [ret |-> "ok", x |-> PyList(d.items),
              self |-> [self EXCEPT !.np_random = g, !.child_rng = d.rng]]

\* A length test that is strict where the code's is not.
RepeatedContainsStrict(self, x) ==
    /\ x.kind = "list"
    /\ Len(x.items) < self.max_len
    /\ \A i \in 1..Len(x.items) : ChildContains(self.child_n, x.items[i])

\* Repeated.contains(x)
RepeatedContains(self, x) ==
    /\ x.kind = "list"
    /\ Len(x.items) <= self.max_len
    /\ \A i \in 1..Len(x.items) : ChildContains(self.child_n, x.items[i])

PyBool(b) == IF b THEN "True" ELSE "False"

\* Items of the arguments of contains(): the least and the greatest value
\* of the child space, and the first value outside it.
ContainsItems == {0, ChildN - 1, ChildN}

\* What contains() is called with: lists and tuples of up to one item more
\* than any max_len, and an int.
ContainsArgs ==
    {[kind |-> k, items |-> xs] :
        k \in {"list", "tuple"}, xs \in SeqsUpTo(ContainsItems, MaxMaxLen + 1)}
        \cup {[kind |-> "int", items |-> <<>>]}

(***************************************************************************)
(* What sample() returned after each seed(s): first[s] holds the values of *)
(* the first run of calls after a seed(s), hist those of the current run.  *)
(***************************************************************************)
NoSeen == [cur |-> -1, hist |-> <<>>, first |-> [s \in Seeds |-> <<>>]]

Reseeded(seen, s) == [seen EXCEPT !.cur = s, !.hist = <<>>]

Sampled(seen, v) ==
    IF seen.cur < 0 THEN seen
    ELSE [seen EXCEPT !.hist = Append(@, v),
                      !.first[seen.cur] =
                          IF Len(@) = Len(seen.hist) THEN Append(@, v) ELSE @]

MaySample(seen) == seen.cur < 0 \/ Len(seen.hist) < MaxCalls

\* Two runs after the same seed agree call by call.
Reproducible(seen) ==
    seen.cur >= 0 =>
        \A k \in 1..Min(Len(seen.hist), Len(seen.first[seen.cur])) :
            seen.hist[k] = seen.first[seen.cur][k]

(***************************************************************************)
(* States of the parts a specification leaves alone.                       *)
(***************************************************************************)
IdleLb == ListBatchInit(<<>>, <<>>, 0)

IdleRep ==
    [alive |-> FALSE, child_n |-> 0, child_rng |-> 0, max_len |-> 0,
     np_random |-> 0]

IdleRepOut == [op |-> "none", x |-> NoVal, ret |-> "None"]

(***************************************************************************)
(* Actions of ListBatch.                                                   *)
(***************************************************************************)
LbRepr ==
    /\ lbOut' = [op |-> "repr", text |-> ListBatchRepr(lb)]
    /\ UNCHANGED <<lb, lbArgs, repVars, sxVars>>

LbStr ==
    /\ lbOut' = [op |-> "str", text |-> ListBatchStr(lb)]
    /\ UNCHANGED <<lb, lbArgs, repVars, sxVars>>

(***************************************************************************)
(* Actions of Repeated.                                                    *)
(***************************************************************************)
RepSeed ==
    /\ rep.alive
    /\ \E s \in Seeds :
        /\ rep' = RepeatedSeed(rep, s)
        /\ repSeen' = Reseeded(repSeen, s)
    /\ repOut' = [op |-> "seed", x |-> NoVal, ret |-> "None"]
    /\ UNCHANGED <<lbVars, sxVars>>

RepSample ==
    /\ rep.alive
    /\ MaySample(repSeen)
    /\ LET r == RepeatedSample(rep)
       IN  /\ rep' = r.self
           /\ repOut' = [op |-> "sample", x |-> r.x, ret |-> r.ret]
           /\ repSeen' = IF r.ret = "ok" THEN Sampled(repSeen, r.x)
                         ELSE repSeen
    /\ UNCHANGED <<lbVars, sxVars>>

RepContains ==
    /\ rep.alive
    /\ \E x \in ContainsArgs :
        repOut' = [op |-> "contains", x |-> x,
                   ret |-> PyBool(RepeatedContains(rep, x))]
    /\ UNCHANGED <<rep, repSeen, lbVars, sxVars>>

(***************************************************************************)
(* Floating point.  A float64 is an integer count of units of 1/Scale; a   *)
(* float32 keeps 24 significant bits of it, rounding half to even.         *)
(***************************************************************************)
Scale == 2^26

F32Exact == 2^24

DTypes == {"float32", "float64"}

RECURSIVE F32Step(_)
F32Step(v) == IF v < F32Exact THEN 1 ELSE 2 * F32Step(v \div 2)

RoundHalfEven(v, q) ==
    LET lo == (v \div q) * q
        rem == v - lo
    IN  IF 2 * rem < q THEN lo
        ELSE IF 2 * rem > q THEN lo + q
        ELSE IF (lo \div q) % 2 = 0 THEN lo ELSE lo + q

CastF32(v) ==
    IF v < 0 THEN -RoundHalfEven(-v, F32Step(-v))
    ELSE RoundHalfEven(v, F32Step(v))

\* ndarray.astype(dtype) of one element
AsType(v, dtype) == IF dtype = "float32" THEN CastF32(v) ELSE v

\* np.sum over the last axis, accumulated in the array's dtype
RECURSIVE SumFrom(_, _, _)
SumFrom(acc, row, dtype) ==
    IF Len(row) = 0 THEN acc
    ELSE SumFrom(AsType(acc + row[1], dtype), Tail(row), dtype)

SumRow(row, dtype) == SumFrom(0, row, dtype)

\* np.isclose(a, b) with numpy's rtol = 1e-05, atol = 1e-08, where `one`
\* units make 1.0:  |a - b| <= atol + rtol * |b|
IsClose(a, b, one) ==
    LET q == Abs(b) \div 100000
        r == Abs(b) % 100000
    IN  Abs(a - b) <= q + ((one + 1000 * r) \div 100000000)

RECURSIVE Prod(_)
Prod(dims) == IF Len(dims) = 0 THEN 1 ELSE dims[1] * Prod(Tail(dims))

(***************************************************************************)
(* numpy arrays.                                                           *)
(***************************************************************************)
NoArray == [has_shape |-> FALSE, shape |-> <<>>, dtype |-> "none", rows |-> <<>>]

\* an array of the given shape whose every last-axis slice is `row`
MkArray(dims, dtype, row) ==
    [has_shape |-> TRUE, shape |-> dims, dtype |-> dtype,
     rows |-> [i \in 1..Prod(Front(dims)) |-> row]]

AsTypeArray(x, dtype) ==
    [x EXCEPT !.dtype = dtype,
              !.rows = [i \in 1..Len(x.rows) |->
                           [j \in 1..Len(x.rows[i]) |-> AsType(x.rows[i][j], dtype)]]]

\* One Dirichlet draw of k components off generator g: every component
\* steps the generator; the components are non-negative and sum to `remaining`.
RECURSIVE Stick(_, _, _)
Stick(g, k, remaining) ==
    LET g1 == RngNext(g)
    IN  IF k = 1 THEN [row |-> <<remaining>>, rng |-> g1]
        ELSE LET part == (remaining * g1) \div RngStates
                 rest == Stick(g1, k - 1, remaining - part)
             IN  [row |-> <<part>> \o rest.row, rng |-> rest.rng]

RECURSIVE DirichletRows(_, _, _)
DirichletRows(g, n, k) ==
    IF n = 0 THEN [rows |-> <<>>, rng |-> g]
    ELSE LET one == Stick(g, k, Scale)
             rest == DirichletRows(one.rng, n - 1, k)
         IN  [rows |-> <<one.row>> \o rest.rows, rng |-> rest.rng]

\* np.random.dirichlet(alpha, size): a float64 array of shape size + (len(alpha),)
Dirichlet(g, alpha, size) ==
    LET d == DirichletRows(g, Prod(size), Len(alpha))
    IN  [x |-> [has_shape |-> TRUE, shape |-> size \o <<Len(alpha)>>,
                dtype |-> "float64", rows |-> d.rows],
         rng |-> d.rng]

(***************************************************************************)
(* Simplex (rllib/utils/spaces/simplex.py).                                *)
(***************************************************************************)
PyTuple(dims) == [kind |-> "tuple", dims |-> dims]

\* shape[:-1]: a slice of a list is a list, of a tuple a tuple
ShapeSlice(shape) == [kind |-> shape.kind, dims |-> Front(shape.dims)]

IdleSx ==
    [alive |-> FALSE, shape |-> PyTuple(<<>>), dtype |-> "float32", dim |-> 0,
     has_conc |-> FALSE, concentration |-> <<>>, np_random |-> 0]

\* concentration.shape == shape[:-1], as Python compares a tuple to it
ConcentrationShapeOk(conc, shape) == PyTuple(conc.shape) = ShapeSlice(shape)

\* gym.Space.__init__(shape, dtype): the shape is kept as a tuple
GymSpaceInit(self, shape, dtype) ==
    [self EXCEPT !.shape = PyTuple(shape.dims), !.dtype = dtype]

\* Simplex.__init__: ret is "ok" or the exception that ends the construction
SimplexInit(shape, conc, dtype, g) ==
    IF shape.kind \notin {"tuple", "list"}
    THEN [ret |-> "AssertionError", obj |-> IdleSx]
    ELSE IF Len(shape.dims) = 0
    THEN [ret |-> "IndexError", obj |-> IdleSx]
    ELSE IF conc.given /\ ~ConcentrationShapeOk(conc, shape)
    THEN [ret |-> "AssertionError", obj |-> IdleSx]
    ELSE LET dim == shape.dims[Len(shape.dims)]
             self == [alive |-> TRUE, shape |-> shape, dtype |-> dtype,
                      dim |-> dim,
                      has_conc |-> ~conc.given,
                      concentration |->
                          IF conc.given THEN <<>> ELSE [i \in 1..dim |-> 1],
                      np_random |-> 0]
         IN  [ret |-> "ok",
              obj |-> [GymSpaceInit(self, shape, dtype) EXCEPT !.np_random = g]]

\* Simplex.seed(seed)
SimplexSeed(self, s) == [self EXCEPT !.np_random = SeedState(s)]

\* Hands dirichlet the whole shape as its size.
SampleSizeWhole(self) == self.shape.dims

\* the size handed to dirichlet in sample(): self.shape[:-1]
SampleSize(self) == ShapeSlice(self.shape).dims

\* Simplex.sample(), drawing off the process-wide generator g
SimplexSample(self, g) ==
    IF ~self.has_conc
    THEN [ret |-> "AttributeError", x |-> NoArray, rng |-> g]
    ELSE LET d == Dirichlet(g, self.concentration, SampleSize(self))
         IN  [ret |-> "ok", x |-> AsTypeArray(d.x, self.dtype), rng |-> d.rng]

\* Simplex.contains(x)
SimplexContains(self, x) ==
    IF ~x.has_shape THEN "AttributeError"
    ELSE IF PyTuple(x.shape) # self.shape THEN "False"
    ELSE PyBool(\A i \in 1..Len(x.rows) :
                    IsClose(SumRow(x.rows[i], x.dtype), AsType(Scale, x.dtype),
                            Scale))

\* numpy broadcasting of two one-dimensional operands
Broadcasts(a, b) == Len(a) = Len(b) \/ Len(a) = 1 \/ Len(b) = 1

\* np.allclose(a, b) of two broadcastable lists of numbers
AllClose(a, b) ==
    LET n == IF Len(a) >= Len(b) THEN Len(a) ELSE Len(b)
        at(s, i) == IF Len(s) = 1 THEN s[1] ELSE s[i]
    IN  \A i \in 1..n : IsClose(at(a, i), at(b, i), 1)

\* Simplex.__eq__(other)
SimplexEq(self, other) ==
    IF ~self.has_conc \/ ~other.has_conc THEN "AttributeError"
    ELSE IF ~Broadcasts(self.concentration, other.concentration)
    THEN "ValueError"
    ELSE PyBool(AllClose(self.concentration, other.concentration)
                    /\ self.shape = other.shape)

TxtSimplex == <<"S", "i", "m", "p", "l", "e", "x", "(">>

ReprShape(shape) ==
    IF shape.kind = "tuple" THEN ReprTuple(shape.dims) ELSE ReprList(shape.dims)

\* Simplex.__repr__
SimplexRepr(self) ==
    IF ~self.has_conc THEN [ret |-> "AttributeError", text |-> <<>>]
    ELSE [ret |-> "ok",
          text |-> TxtSimplex \o ReprShape(self.shape) \o <<";", " ">>
                       \o ReprList(self.concentration) \o <<")">>]

(***************************************************************************)
(* What the Simplex operations are called with.                            *)
(***************************************************************************)
DimSeqs ==
    {<<>>} \cup {<<d>> : d \in 1..MaxDim}
           \cup {<<l, d>> : l \in 1..MaxLead, d \in 1..MaxDim}

\* shape arguments: tuples and lists of dimensions, and an int
ShapeArgs ==
    {[kind |-> k, dims |-> ds] : k \in {"tuple", "list"}, ds \in DimSeqs}
        \cup {[kind |-> "int", dims |-> <<>>]}

NoConc == [given |-> FALSE, shape |-> <<>>]

\* concentration arguments: None, or an array of some shape
ConcArgs ==
    {NoConc} \cup {[given |-> TRUE, shape |-> cs] :
                      cs \in {<<>>} \cup {<<l>> : l \in 1..MaxLead}}

\* the spaces a construction can return
Constructible ==
    {r.obj : r \in {q \in {SimplexInit(sh, c, dt, 0) :
                               sh \in ShapeArgs, c \in ConcArgs, dt \in DTypes} :
                        q.ret = "ok"}}

UnitRow(d) == [j \in 1..d |-> IF j = 1 THEN Scale ELSE 0]

ZeroRow(d) == [j \in 1..d |-> 0]

NearRow(d, delta) == [j \in 1..d |-> IF j = 1 THEN Scale + delta ELSE 0]

NegRow(d) ==
    [j \in 1..d |-> IF j = 1 THEN 2 * Scale ELSE IF j = 2 THEN -Scale ELSE 0]

Rows(d) ==
    {UnitRow(d), ZeroRow(d), NearRow(d, 600), NearRow(d, 704)}
        \cup (IF d >= 2 THEN {NegRow(d)} ELSE {})

WrongDims(dims) == Front(dims) \o <<dims[Len(dims)] + 1>>

\* arguments of contains(): arrays of the space's shape and of another, and
\* an object with no shape attribute (a Python list)
SxContainsArgs(self) ==
    {NoArray} \cup
    {MkArray(ds, dt, row) :
        ds \in {self.shape.dims}, dt \in DTypes, row \in Rows(self.dim)} \cup
    {MkArray(WrongDims(self.shape.dims), dt, UnitRow(self.dim + 1)) :
        dt \in DTypes}

IdleSxOut ==
    [op |-> "none", shape |-> PyTuple(<<>>), conc |-> NoConc, x |-> NoArray,
     other |-> IdleSx, ret |-> "None", text |-> <<>>]

(***************************************************************************)
(* Actions of Simplex.                                                     *)
(***************************************************************************)
SxInit ==
    /\ ~sx.alive
    /\ \E sh \in ShapeArgs, c \in ConcArgs, dt \in DTypes, g \in Rng :
        LET r == SimplexInit(sh, c, dt, g)
        IN  /\ sx' = IF r.ret = "ok" THEN r.obj ELSE sx
            /\ sxOut' = [IdleSxOut EXCEPT !.op = "init", !.shape = sh,
                                          !.conc = c, !.ret = r.ret]
    /\ UNCHANGED <<npGlobal, sxSeen, lbVars, repVars>>

SxSeed ==
    /\ sx.alive
    /\ \E s \in Seeds :
        /\ sx' = SimplexSeed(sx, s)
        /\ sxSeen' = Reseeded(sxSeen, s)
    /\ sxOut' = [IdleSxOut EXCEPT !.op = "seed"]
    /\ UNCHANGED <<npGlobal, lbVars, repVars>>

SxSample ==
    /\ sx.alive
    /\ MaySample(sxSeen)
    /\ LET r == SimplexSample(sx, npGlobal)
       IN  /\ npGlobal' = r.rng
           /\ sxOut' = [IdleSxOut EXCEPT !.op = "sample", !.x = r.x,
                                         !.ret = r.ret]
           /\ sxSeen' = IF r.ret = "ok" THEN Sampled(sxSeen, r.x) ELSE sxSeen
    /\ UNCHANGED <<sx, lbVars, repVars>>

SxContains ==
    /\ sx.alive
    /\ \E x \in SxContainsArgs(sx) :
        sxOut' = [IdleSxOut EXCEPT !.op = "contains", !.x = x,
                                   !.ret = SimplexContains(sx, x)]
    /\ UNCHANGED <<sx, npGlobal, sxSeen, lbVars, repVars>>

SxEq ==
    /\ sx.alive
    /\ \E other \in Constructible :
        sxOut' = [IdleSxOut EXCEPT !.op = "eq", !.other = other,
                                   !.ret = SimplexEq(sx, other)]
    /\ UNCHANGED <<sx, npGlobal, sxSeen, lbVars, repVars>>

SxRepr ==
    /\ sx.alive
    /\ LET r == SimplexRepr(sx)
       IN  sxOut' = [IdleSxOut EXCEPT !.op = "repr", !.ret = r.ret,
                                      !.text = r.text]
    /\ UNCHANGED <<sx, npGlobal, sxSeen, lbVars, repVars>>

\* Other code of the process draws from np.random (another space's sample()).
NpDraw ==
    /\ npGlobal' = RngNext(npGlobal)
    /\ UNCHANGED <<sx, sxOut, sxSeen, lbVars, repVars>>

\* Other code of the process calls np.random.seed(s).
NpSeed ==
    /\ \E s \in Seeds : npGlobal' = SeedState(s)
    /\ UNCHANGED <<sx, sxOut, sxSeen, lbVars, repVars>>

(***************************************************************************)
(* Specifications, one for each class and one for the seeding of each      *)
(* space.  The parts a specification leaves alone stay idle.               *)
(***************************************************************************)
LbIdle == lb = IdleLb /\ lbArgs = IdleLb /\ lbOut = NoText

RepIdle == rep = IdleRep /\ repOut = IdleRepOut /\ repSeen = NoSeen

SxIdle == sx = IdleSx /\ npGlobal = 0 /\ sxOut = IdleSxOut /\ sxSeen = NoSeen

InitListBatch ==
    /\ lbArgs \in [value : IntLists, lengths : IntLists, max_len : LenArgs]
    /\ lb = ListBatchInit(lbArgs.value, lbArgs.lengths, lbArgs.max_len)
    /\ lbOut = NoText
    /\ RepIdle
    /\ SxIdle

NextListBatch == LbRepr \/ LbStr

SpecListBatch == InitListBatch /\ [][NextListBatch]_vars

InitRepeated ==
    /\ \E m \in 0..MaxMaxLen, g \in Rng, cg \in Rng :
        rep = RepeatedInit(ChildN, cg, m, g)
    /\ repOut = IdleRepOut
    /\ repSeen = NoSeen
    /\ LbIdle
    /\ SxIdle

NextRepeated == RepSample \/ RepContains

SpecRepeated == InitRepeated /\ [][NextRepeated]_vars

InitRepeatedSeed ==
    /\ \E m \in 1..MaxMaxLen, g \in Rng, cg \in Rng :
        rep = RepeatedInit(ChildN, cg, m, g)
    /\ repOut = IdleRepOut
    /\ repSeen = NoSeen
    /\ LbIdle
    /\ SxIdle

NextRepeatedSeed == RepSeed \/ RepSample

SpecRepeatedSeed == InitRepeatedSeed /\ [][NextRepeatedSeed]_vars

InitSimplex ==
    /\ sx = IdleSx
    /\ npGlobal \in Rng
    /\ sxOut = IdleSxOut
    /\ sxSeen = NoSeen
    /\ LbIdle
    /\ RepIdle

NextSimplex == SxInit \/ SxSample \/ SxContains \/ SxEq \/ SxRepr

SpecSimplex == InitSimplex /\ [][NextSimplex]_vars

NextSimplexSeed == SxInit \/ SxSeed \/ SxSample \/ NpDraw \/ NpSeed

SpecSimplexSeed == InitSimplex /\ [][NextSimplexSeed]_vars

(***************************************************************************)
(* Properties.                                                             *)
(***************************************************************************)
ValidItems(self, x) ==
    \A i \in 1..Len(x.items) : x.items[i] >= 0 /\ x.items[i] < self.child_n

ExactSum(row) == SumFrom(0, row, "float64")

\* C1: for max_len >= 1 (and a child space whose samples it contains),
\* every value sample() returns is a list of 1..max_len items, and
\* contains() of the same space is true of it.
C1_SampleInRangeAndContained ==
    (repOut.op = "sample" /\ rep.max_len >= 1) =>
        /\ repOut.ret = "ok"
        /\ repOut.x.kind = "list"
        /\ Len(repOut.x.items) >= 1
        /\ Len(repOut.x.items) <= rep.max_len
        /\ RepeatedContains(rep, repOut.x)

\* C1: a sample of the greatest length of a space with max_len >= 2
C1_Witness ==
    /\ repOut.op = "sample"
    /\ repOut.ret = "ok"
    /\ rep.max_len >= 2
    /\ Len(repOut.x.items) = rep.max_len

\* C2 as stated: contains(x) is true exactly when x is a sequence (a list
\* or a tuple) of at most max_len items that all lie in the child space.
C2_ContainsIffSequence ==
    repOut.op = "contains" =>
        (repOut.ret = "True" <=>
            /\ repOut.x.kind \in {"list", "tuple"}
            /\ Len(repOut.x.items) <= rep.max_len
            /\ ValidItems(rep, repOut.x))

\* C2 amended: contains(x) is true exactly when x is a list of at most
\* max_len items that all lie in the child space; the empty list is
\* accepted for every max_len >= 1, and sample() never returns it.
C2_ContainsIffList ==
    /\ repOut.op = "contains" =>
        /\ repOut.ret \in {"True", "False"}
        /\ repOut.ret = "True" <=>
            /\ repOut.x.kind = "list"
            /\ Len(repOut.x.items) <= rep.max_len
            /\ ValidItems(rep, repOut.x)
        /\ (repOut.x = PyList(<<>>) /\ rep.max_len >= 1) => repOut.ret = "True"
    /\ (repOut.op = "sample" /\ repOut.ret = "ok") => repOut.x # PyList(<<>>)

\* C2: the empty list was handed to contains() of a space with max_len >= 1
C2_Witness ==
    /\ repOut.op = "contains"
    /\ repOut.x = PyList(<<>>)
    /\ rep.max_len >= 1
    /\ repOut.ret = "True"

\* C3: with no explicit concentration, every value sample() returns has
\* the shape of the space, every slice along its last axis sums to 1 within
\* 1e-5, and contains() of the same space is true of it.
C3_SampleInSimplex ==
    (sxOut.op = "sample" /\ sx.has_conc) =>
        /\ sxOut.ret = "ok"
        /\ sxOut.x.has_shape
        /\ PyTuple(sxOut.x.shape) = sx.shape
        /\ Len(sxOut.x.rows) = Prod(Front(sx.shape.dims))
        /\ \A i \in 1..Len(sxOut.x.rows) :
            /\ Len(sxOut.x.rows[i]) = sx.dim
            /\ \A j \in 1..Len(sxOut.x.rows[i]) : sxOut.x.rows[i][j] >= 0
            /\ Abs(ExactSum(sxOut.x.rows[i]) - Scale) <= Scale \div 100000
        /\ SimplexContains(sx, sxOut.x) = "True"

\* C3: a float32 sample of several simplices one of which the cast to
\* float32 has moved off the exact sum
C3_Witness ==
    /\ sxOut.op = "sample"
    /\ sxOut.ret = "ok"
    /\ sx.dtype = "float32"
    /\ Len(sx.shape.dims) = 2
    /\ Len(sxOut.x.rows) >= 2
    /\ \E i \in 1..Len(sxOut.x.rows) : ExactSum(sxOut.x.rows[i]) # Scale

\* C4: after seed(s) the values of the following sample() calls depend on
\* s and the number of calls alone: two runs of calls after the same seed
\* return the same values, whatever other code did to np.random in between.
C4_SeedDeterminesSamples == Reproducible(sxSeen)

\* C5: after seed(s) the lists of the following sample() calls are
\* reproducible: two runs of calls after the same seed return the same
\* lists, lengths and elements.
C5_SeedDeterminesLists == Reproducible(repSeen)

\* The lengths alone are reproducible: they come off the seeded generator.
RepeatedLengthsReproducible ==
    repSeen.cur >= 0 =>
        \A k \in 1..Min(Len(repSeen.hist), Len(repSeen.first[repSeen.cur])) :
            Len(repSeen.hist[k].items) = Len(repSeen.first[repSeen.cur][k].items)

\* C6: contains() of either space never raises: it returns a boolean, and
\* false for an argument of the wrong type (Repeated) or of no shape or
\* the wrong shape (Simplex).
C6_ContainsNeverRaises ==
    /\ repOut.op = "contains" =>
        /\ repOut.ret \in {"True", "False"}
        /\ repOut.x.kind # "list" => repOut.ret = "False"
    /\ sxOut.op = "contains" =>
        /\ sxOut.ret \in {"True", "False"}
        /\ (~sxOut.x.has_shape \/ PyTuple(sxOut.x.shape) # sx.shape)
              => sxOut.ret = "False"

\* C7: for two spaces that both hold a concentration, __eq__ returns true
\* exactly when the concentrations are element-wise close and the shapes
\* equal, and false (no exception) when they differ.
C7_EqIffCloseAndSameShape ==
    (sxOut.op = "eq" /\ sx.has_conc /\ sxOut.other.has_conc) =>
        sxOut.ret = PyBool(
            /\ sx.shape = sxOut.other.shape
            /\ Len(sx.concentration) = Len(sxOut.other.concentration)
            /\ \A i \in 1..Len(sx.concentration) :
                IsClose(sx.concentration[i], sxOut.other.concentration[i], 1))

\* C8: after every successful construction the concentration field is
\* populated, so no later sample(), __repr__() or __eq__() fails on a
\* missing field.
C8_ConcentrationPopulated ==
    /\ sx.alive => (sx.has_conc /\ Len(sx.concentration) = sx.dim)
    /\ sxOut.op \in {"sample", "repr", "eq"} => sxOut.ret # "AttributeError"

\* C9: for a shape argument that is no tuple or list, or has at least one
\* dimension: construction fails with an assertion exactly when the shape
\* is no tuple or list, or a concentration is given whose shape differs
\* from shape[:-1]; for every other such input it succeeds; and a failed
\* construction leaves no space.
C9_InitFailsIffShapesDiffer ==
    (sxOut.op = "init"
        /\ (sxOut.shape.kind \notin {"tuple", "list"} \/ Len(sxOut.shape.dims) >= 1))
    =>  LET bad ==
                \/ sxOut.shape.kind \notin {"tuple", "list"}
                \/ /\ sxOut.conc.given
                   /\ sxOut.conc.shape # Front(sxOut.shape.dims)
        IN  /\ sxOut.ret = "AssertionError" <=> bad
            /\ ~bad => (sxOut.ret = "ok" /\ sx.alive)
            /\ sxOut.ret # "ok" => ~sx.alive

\* What the constructor does instead: the concentration's shape, a tuple,
\* is compared as Python compares with the slice of the shape argument, so
\* under a list shape every concentration is refused.
InitFailsAsPythonCompares ==
    (sxOut.op = "init"
        /\ (sxOut.shape.kind \notin {"tuple", "list"} \/ Len(sxOut.shape.dims) >= 1))
    =>  LET bad ==
                \/ sxOut.shape.kind \notin {"tuple", "list"}
                \/ /\ sxOut.conc.given
                   /\ \/ sxOut.shape.kind # "tuple"
                      \/ sxOut.conc.shape # Front(sxOut.shape.dims)
        IN  /\ sxOut.ret = "AssertionError" <=> bad
            /\ ~bad => (sxOut.ret = "ok" /\ sx.alive)
            /\ sxOut.ret # "ok" => ~sx.alive

\* C10: the three fields hold the constructor's arguments after any
\* sequence of __repr__ / __str__ calls, and the text returned embeds
\* max_len=<max_len> and the representations of value and lengths.
C10_FieldsKeptAndShown ==
    /\ lb.value = lbArgs.value
    /\ lb.lengths = lbArgs.lengths
    /\ lb.max_len = lbArgs.max_len
    /\ lbOut.op # "none" =>
        /\ IsSubstring(TxtMaxLen \o ReprInt(lbArgs.max_len) \o <<")">>, lbOut.text)
        /\ IsSubstring(TxtValue \o ReprList(lbArgs.value) \o TxtSep, lbOut.text)
        /\ IsSubstring(TxtLengths \o ReprList(lbArgs.lengths) \o TxtSep, lbOut.text)

\* C10: __str__ returned the text of a batch with a two-digit max_len and
\* the longest lengths list
C10_Witness ==
    /\ lbOut.op = "str"
    /\ lbArgs.max_len >= 10
    /\ Len(lbArgs.lengths) = MaxItems
    /\ Len(lbArgs.value) >= 1

====
